---- MODULE Spec2Model ----
(***************************************************************************)
(* Model of src/app.py: the Aha! idea webhook (aha_webhook), the quality   *)
(* analyzer (analyze_idea_quality), the comment publisher                  *)
(* (aha_post_private_comment), the chat notifier (slack_notify) and the    *)
(* text helpers (_strip_html, _shorten).                                   *)
(*                                                                         *)
(* Two specifications:                                                     *)
(*   Spec      the webhook service handling one request after another      *)
(*   SpecText  the text helpers applied to bounded strings                 *)
(***************************************************************************)
EXTENDS Integers, Sequences, FiniteSets, TLC

VARIABLES
    \* ---- process configuration (module globals, lines 115-118)
    OPENAI_API_KEY,     \* TRUE iff the environment gave a non-empty key
    SLACK_WEBHOOK_URL,  \* TRUE iff the environment gave a non-empty URL
    \* ---- the request being handled by aha_webhook
    pc,                 \* position of the handler
    method,             \* request.method
    body,               \* what request.get_json(force=True, silent=True) returns
    idea,               \* local `idea`
    idea_id,            \* local `idea_id`
    openai_outcome,     \* what the generative-analysis call of this request met
    analysis,           \* local `analysis` (result of analyze_idea_quality)
    comment_result,     \* how the last aha_post_private_comment call ended
    notify_result,      \* how the last slack_notify call ended
    notify_calls,       \* the slack_notify invocations of this request, in order
    calls,              \* outbound HTTP calls of this request, in order
    response,           \* the HTTP response given to the caller
    \* ---- the text helpers
    tpc,                \* position of the text-helper run
    text,               \* input of _strip_html
    limit,              \* the limit argument of _shorten
    stripped,           \* _strip_html(text)
    stripped2,          \* _strip_html(_strip_html(text))
    shortened           \* _shorten(text, limit)

webvars == <<OPENAI_API_KEY, SLACK_WEBHOOK_URL, pc, method, body, idea, idea_id,
             openai_outcome, analysis, comment_result, notify_result, notify_calls, calls,
             response>>
textvars == <<tpc, text, limit, stripped, stripped2, shortened>>
vars == <<webvars, textvars>>

(***************************************************************************)
(* Bounds                                                                  *)
(***************************************************************************)
MaxLen == 6      \* longest input string of the text helpers
MaxLimit == 3    \* largest limit handed to _shorten
MaxIdNum == 1    \* largest numeric idea id in a payload

(***************************************************************************)
(* Text helpers.  A Python str is a sequence of one-character strings;     *)
(* an Optional[str] is a record so that None and "" stay distinct.         *)
(***************************************************************************)
Chars == {"<", ">", "a"}
Ellipsis == "U+2026"   \* the one character appended by _shorten (line 22)

RECURSIVE StringsUpTo(_)
StringsUpTo(n) ==
    IF n = 0 THEN {<<>>}
    ELSE LET shorter == StringsUpTo(n - 1)
         IN  shorter \cup {Append(s, c) : s \in {t \in shorter : Len(t) = n - 1}, c \in Chars}

NoneText == [none |-> TRUE, s |-> <<>>]
Str(s) == [none |-> FALSE, s |-> s]

\* Index of the first ">" of s at or after position i, 0 when there is none.
RECURSIVE FirstClose(_, _)
FirstClose(s, i) ==
    IF i > Len(s) THEN 0
    ELSE IF s[i] = ">" THEN i
    ELSE FirstClose(s, i + 1)

\* A faulty variant of TagEnd: the tag body may not hold "<" either (pattern <[^<>]+>).
RECURSIVE NoOpenBefore(_, _, _)
NoOpenBefore(s, i, k) ==
    IF i >= k THEN TRUE
    ELSE s[i] # "<" /\ NoOpenBefore(s, i + 1, k)

TagEndNoNesting(s, i) ==
    LET k == FirstClose(s, i + 1)
    IN  IF s[i] = "<" /\ k >= i + 2 /\ NoOpenBefore(s, i + 1, k) THEN k ELSE 0

\* The end of a match of the pattern <[^>]+> starting at position i of s,
\* 0 when it does not match there: "<", one or more characters other than
\* ">", then ">".
TagEnd(s, i) ==
    LET k == FirstClose(s, i + 1)
    IN  IF s[i] = "<" /\ k >= i + 2 THEN k ELSE 0

\* re.sub(r"<[^>]+>", "", s) from position i on: leftmost matches, left to
\* right, non-overlapping.
RECURSIVE ReSubTags(_, _)
ReSubTags(s, i) ==
    IF i > Len(s) THEN <<>>
    ELSE IF TagEnd(s, i) # 0 THEN ReSubTags(s, TagEnd(s, i) + 1)
    ELSE <<s[i]>> \o ReSubTags(s, i + 1)

\* _strip_html(text)
_strip_html(t) ==
    IF t.none \/ t.s = <<>> THEN <<>>
    ELSE ReSubTags(t.s, 1)

\* Python's s[:n] for n >= 0.
SliceTo(s, n) == SubSeq(s, 1, IF n < Len(s) THEN n ELSE Len(s))

\* A faulty variant of _shorten: the ellipsis is made to fit inside the limit.
_shorten_within(t, lim) ==
    IF t.none \/ t.s = <<>> THEN <<>>
    ELSE IF Len(t.s) <= lim THEN t.s
    ELSE SliceTo(t.s, lim - 1) \o <<Ellipsis>>

\* _shorten(s, limit)
_shorten(t, lim) ==
    IF t.none \/ t.s = <<>> THEN <<>>
    ELSE IF Len(t.s) <= lim THEN t.s
    ELSE SliceTo(t.s, lim) \o <<Ellipsis>>

(***************************************************************************)
(* JSON values as Python sees them.  Only the values the handler tests or  *)
(* converts are kept: None (absent or null), integers and strings.         *)
(***************************************************************************)
None == [t |-> "none", n |-> 0, s |-> ""]
IntV(n) == [t |-> "int", n |-> n, s |-> ""]
StrV(s) == [t |-> "str", n |-> 0, s |-> s]

\* Python truth value of a JSON value: None, 0 and "" are false.
Truthy(v) ==
    CASE v.t = "none" -> FALSE
      [] v.t = "int"  -> v.n # 0
      [] v.t = "str"  -> v.s # ""

\* Python's `a or b`: a when a is true, otherwise b (whatever b is).
PyOr(a, b) == IF Truthy(a) THEN a ELSE b

Digit(d) == <<"0", "1", "2", "3", "4", "5", "6", "7", "8", "9">>[d + 1]

RECURSIVE Decimal(_)
Decimal(n) == IF n < 10 THEN Digit(n) ELSE Decimal(n \div 10) \o Digit(n % 10)

\* Python's str(v).
PyStr(v) ==
    CASE v.t = "none" -> "None"
      [] v.t = "int"  -> Decimal(v.n)
      [] v.t = "str"  -> v.s

(***************************************************************************)
(* Request bodies.  An idea payload is a dict of which the handler reads   *)
(* id, reference_num and reference.  kind "dict" is a non-empty dict,      *)
(* "empty" is {}, "string" a non-empty JSON string where a dict was        *)
(* expected, "absent" a missing key (None).                                *)
(***************************************************************************)
IdValues == {None, StrV("42")} \cup {IntV(n) : n \in 0..MaxIdNum}
RefNumValues == {None, StrV("R-1")}
RefValues == {None, StrV(""), StrV("X-9")}
EventValues == {None, StrV(""), StrV("create"), StrV("created"), StrV("update")}

IdFields == [id : IdValues, reference_num : RefNumValues, reference : RefValues]
NoFields == [id |-> None, reference_num |-> None, reference |-> None]
\* Top-level identifiers that differ from every identifier of IdFields.
DecoyFields == [id |-> StrV("T-1"), reference_num |-> StrV("T-2"), reference |-> StrV("T-3")]

Payload(kind, f) == [kind |-> kind, id |-> f.id, reference_num |-> f.reference_num,
                     reference |-> f.reference]

\* What get_json(force=True, silent=True) returns: None for a malformed or
\* missing body ("none"), a non-empty non-dict JSON value ("list"), or a
\* dict with its "event" and "idea" keys and its own identifier keys (top).
\* `fields` says whether the text fields of the idea payload (description,
\* current_behavior, custom_fields, ...) have the types _strip_html and
\* cf.get need ("text") or another JSON type ("badtype").
DictBody(e, i, t, f) == [kind |-> "dict", event |-> e, idea |-> i, top |-> t, fields |-> f]

\* Bodies that vary the identifiers: every idea payload under "idea" with and
\* without other identifiers at top level, and every payload at top level
\* under a missing, empty or non-dict "idea".
IdBodies ==
    {DictBody(e, Payload("dict", f), Payload("dict", t), "text") :
        e \in {None, StrV("created")}, f \in IdFields, t \in {NoFields, DecoyFields}}
    \cup
    {DictBody(e, Payload(k, NoFields), Payload("dict", t), "text") :
        e \in {None, StrV("created")}, k \in {"absent", "empty", "string"}, t \in IdFields}

\* Bodies that vary the event and the types of the text fields, with and
\* without an identifier.
EventBodies ==
    {DictBody(e, Payload("dict", [NoFields EXCEPT !.id = i]), Payload("dict", NoFields), x) :
        e \in EventValues, i \in {None, StrV("42")}, x \in {"text", "badtype"}}

DictBodies == IdBodies \cup EventBodies
NoBody == [kind |-> "none", event |-> None, idea |-> Payload("absent", NoFields),
           top |-> Payload("empty", NoFields), fields |-> "text"]
ListBody == [NoBody EXCEPT !.kind = "list"]
Bodies == DictBodies \cup {NoBody, ListBody}

Methods == {"POST", "GET", "HEAD"}

\* Python truth value of the value under a key: None and {} are false.
PayloadTruthy(p) == p.kind \in {"dict", "string"}

(***************************************************************************)
(* Pure steps of aha_webhook                                               *)
(***************************************************************************)
\* data = request.get_json(force=True, silent=True) or {}
Data(b) == IF b.kind = "none" THEN [b EXCEPT !.kind = "dict"] ELSE b

\* A faulty variant of EventSkipped: only the literal "create" passes the filter.
EventSkippedStrict(data) == Truthy(data.event) /\ data.event.s # "create"

\* event_type and event_type not in ("create", "created")
EventSkipped(data) == Truthy(data.event) /\ data.event.s \notin {"create", "created"}

\* idea = data.get("idea") or data
IdeaOf(data) == IF PayloadTruthy(data.idea) THEN data.idea ELSE data.top

\* A faulty variant of ResolveIdeaId: reference_num is tried before id.
ResolveIdeaIdRefFirst(i) == PyStr(PyOr(PyOr(i.reference_num, i.id), i.reference))

\* str(idea.get("id") or idea.get("reference_num") or idea.get("reference"))
ResolveIdeaId(i) == PyStr(PyOr(PyOr(i.id, i.reference_num), i.reference))

\* not idea_id
NoIdeaId(id) == id = ""

(***************************************************************************)
(* analyze_idea_quality                                                    *)
(***************************************************************************)
\* JSON values met under the keys of the parsed analysis object.
FlagValues == {"absent", "false", "null", "true", "nonempty_string"}
CritiqueValues == {"string", "number"}
IssuesValues == {"absent", "list", "number"}

NoOutcome == [kind |-> "not_called", needs_improvement |-> "absent",
              critique |-> "string", issues_found |-> "absent"]
Failure(k) == [NoOutcome EXCEPT !.kind = k]

\* What requests.post to the chat-completions endpoint can meet:
\*   transport_error   the call raises (connection error, timeout)
\*   non_200           a response whose status is not 200
\*   body_not_json     response.json() raises
\*   wrong_shape       result["choices"][0]["message"]["content"] raises
\*   content_not_json  json.loads(content) raises
\*   content_not_dict  the content parses to a list, string, number or null
\*   dict              the content parses to a JSON object
OpenAIOutcomes ==
    {Failure(k) : k \in {"transport_error", "non_200", "body_not_json", "wrong_shape",
                         "content_not_json", "content_not_dict"}}
    \cup [kind : {"dict"}, needs_improvement : FlagValues, critique : CritiqueValues,
          issues_found : IssuesValues]

\* Python truth value of analysis.get("needs_improvement").
FlagTruthy(f) == f \in {"true", "nonempty_string"}

\* The local `analysis` before line 302 binds it, and the value None.
Unbound == [NoOutcome EXCEPT !.kind = "unbound"]
NoAnalysis == [NoOutcome EXCEPT !.kind = "None"]

\* Lines 241-253: the value analyze_idea_quality returns after the call.
AnalysisResult(o) ==
    IF o.kind = "dict" /\ FlagTruthy(o.needs_improvement) THEN o ELSE NoAnalysis

\* A faulty variant of NeedsAction: the gate was left out.
NeedsActionAlways(a) == TRUE

\* Line 305, negated: analysis and analysis.get("needs_improvement")
NeedsAction(a) == a.kind = "dict" /\ FlagTruthy(a.needs_improvement)

\* Lines 320-321: iterating `issues` raises when it is a non-zero number.
IssuesRaise(a) == a.issues_found = "number"

\* Line 103 via line 325: _shorten(critique, 2800) calls len() on a number.
BlocksRaise(a) == a.critique = "number"

(***************************************************************************)
(* aha_post_private_comment and slack_notify                               *)
(***************************************************************************)
CommentOutcomes == {"transport_error", "ok_json", "ok_not_json", "rejected_4xx", "error_5xx"}
SlackOutcomes == {"ok", "non_2xx", "transport_error"}

\* A faulty variant of CommentResult: the call and resp.json() are wrapped in try/except.
CommentResultGuarded(o) == IF o = "ok_json" THEN "json" ELSE "empty"

\* Lines 261-264: SESSION.post raises on a transport error; resp.json() is
\* returned when resp.ok and raises on a body that is not JSON; {} otherwise.
CommentResult(o) ==
    CASE o = "transport_error" -> "raised"
      [] o = "ok_json"         -> "json"
      [] o = "ok_not_json"     -> "raised"
      [] OTHER                 -> "empty"

Call(api, id, what, o) == [api |-> api, idea_id |-> id, what |-> what, outcome |-> o]

\* Line 260-261: one POST, with visibility given as the string "private".
CommentCalls(id, o) == <<Call("aha_comment", id, "visibility_private", o)>>

\* Lines 134-140: no POST without a webhook URL, one POST with it.
SlackPosts(url, what, o) == IF url THEN <<Call("slack", "", what, o)>> ELSE <<>>

\* A faulty variant of SlackNotifyResult: a transport failure is not caught.
SlackNotifyResultUncaught(url, o) ==
    IF url /\ o = "transport_error" THEN "raised" ELSE "returned"

\* Lines 139-142: whatever requests.post does, slack_notify returns.
SlackNotifyResult(url, o) == "returned"

(***************************************************************************)
(* HTTP responses of aha_webhook                                           *)
(***************************************************************************)
Resp(code, st, id, act) == [code |-> code, status |-> st, idea_id |-> id, action |-> act]
NoResponse == Resp(0, "", "", "")
Empty200 == Resp(200, "", "", "")                       \* line 274
Skipped == Resp(200, "skipped", "", "")                 \* line 285
NoIdeaId400 == Resp(400, "", "", "")                    \* line 299
NoActionNeeded(id) == Resp(200, "ok", id, "no_action_needed")   \* lines 306-311
Notified(id) == Resp(200, "ok", id, "notified")         \* lines 333-338
\* An exception that leaves the view function: Flask answers 500.
Uncaught == Resp(500, "", "", "")

(***************************************************************************)
(* The service                                                             *)
(***************************************************************************)
TextIdle ==
    /\ tpc = "off"
    /\ text = NoneText
    /\ limit = 0
    /\ stripped = <<>>
    /\ stripped2 = <<>>
    /\ shortened = <<>>

Init ==
    /\ OPENAI_API_KEY \in BOOLEAN
    /\ SLACK_WEBHOOK_URL \in BOOLEAN
    /\ pc = "idle"
    /\ method = "POST"
    /\ body = NoBody
    /\ idea = Payload("absent", NoFields)
    /\ idea_id = ""
    /\ openai_outcome = NoOutcome
    /\ analysis = Unbound
    /\ comment_result = "not_called"
    /\ notify_result = "not_called"
    /\ notify_calls = <<>>
    /\ calls = <<>>
    /\ response = NoResponse
    /\ TextIdle

Finish(r) == pc' = "done" /\ response' = r

\* A request arrives at the idle worker.
Receive(m, b) ==
    /\ pc = "idle"
    /\ pc' = "received"
    /\ method' = m
    /\ body' = b
    /\ UNCHANGED <<OPENAI_API_KEY, SLACK_WEBHOOK_URL, idea, idea_id, openai_outcome,
                   analysis, comment_result, notify_result, notify_calls, calls,
                   response, textvars>>

\* The response has been sent: the locals of the request are gone and the
\* worker takes the next request.  Nothing but the configuration is kept.
NextRequest ==
    /\ pc = "done"
    /\ pc' = "idle"
    /\ method' = "POST"
    /\ body' = NoBody
    /\ idea' = Payload("absent", NoFields)
    /\ idea_id' = ""
    /\ openai_outcome' = NoOutcome
    /\ analysis' = Unbound
    /\ comment_result' = "not_called"
    /\ notify_result' = "not_called"
    /\ notify_calls' = <<>>
    /\ calls' = <<>>
    /\ response' = NoResponse
    /\ UNCHANGED <<OPENAI_API_KEY, SLACK_WEBHOOK_URL, textvars>>

\* Lines 273-274.
HealthCheck ==
    /\ pc = "received"
    /\ method \in {"HEAD", "GET"}
    /\ Finish(Empty200)
    /\ UNCHANGED <<OPENAI_API_KEY, SLACK_WEBHOOK_URL, method, body, idea, idea_id,
                   openai_outcome, analysis, comment_result, notify_result,
                   notify_calls, calls, textvars>>

\* Lines 276-285: data.keys() raises on a body that is not a dict.
FilterEvent ==
    /\ pc = "received"
    /\ method = "POST"
    /\ IF body.kind = "list" THEN Finish(Uncaught)
       ELSE IF EventSkipped(Data(body)) THEN Finish(Skipped)
       ELSE pc' = "resolve" /\ UNCHANGED response
    /\ UNCHANGED <<OPENAI_API_KEY, SLACK_WEBHOOK_URL, method, body, idea, idea_id,
                   openai_outcome, analysis, comment_result, notify_result,
                   notify_calls, calls, textvars>>

\* Lines 287-299: idea.get raises when `idea` is not a dict.
ResolveId ==
    /\ pc = "resolve"
    /\ idea' = IdeaOf(Data(body))
    /\ IF idea'.kind = "string"
       THEN Finish(Uncaught) /\ UNCHANGED idea_id
       ELSE /\ idea_id' = ResolveIdeaId(idea')
            /\ IF NoIdeaId(idea_id') THEN Finish(NoIdeaId400)
               ELSE pc' = "analyze" /\ UNCHANGED response
    /\ UNCHANGED <<OPENAI_API_KEY, SLACK_WEBHOOK_URL, method, body,
                   openai_outcome, analysis, comment_result, notify_result,
                   notify_calls, calls, textvars>>

\* Line 302, lines 148-253: without a key no call is made; the field
\* extraction of lines 157-162 is outside the try block; the call and the
\* parsing of its answer are inside it.
AnalyzeIdeaQuality(o) ==
    /\ pc = "analyze"
    /\ IF ~OPENAI_API_KEY
       THEN /\ analysis' = NoAnalysis
            /\ pc' = "gate"
            /\ UNCHANGED <<openai_outcome, calls, response>>
       ELSE IF body.fields = "badtype"
       THEN /\ Finish(Uncaught)
            /\ UNCHANGED <<openai_outcome, analysis, calls>>
       ELSE /\ calls' = calls \o <<Call("openai", "", "chat_completion", o.kind)>>
            /\ openai_outcome' = o
            /\ analysis' = AnalysisResult(o)
            /\ pc' = "gate"
            /\ UNCHANGED response
    /\ UNCHANGED <<OPENAI_API_KEY, SLACK_WEBHOOK_URL, method, body, idea, idea_id,
                   comment_result, notify_result, notify_calls, textvars>>

\* Lines 305-311.
Gate ==
    /\ pc = "gate"
    /\ IF NeedsAction(analysis) THEN pc' = "draft" /\ UNCHANGED response
       ELSE Finish(NoActionNeeded(idea_id))
    /\ UNCHANGED <<OPENAI_API_KEY, SLACK_WEBHOOK_URL, method, body, idea, idea_id,
                   openai_outcome, analysis, comment_result, notify_result,
                   notify_calls, calls, textvars>>

\* Lines 314-321, outside the try block: analysis.get raises on None, the
\* join raises on issues that cannot be iterated.
DraftBody ==
    /\ pc = "draft"
    /\ IF analysis.kind = "None" \/ IssuesRaise(analysis) THEN Finish(Uncaught)
       ELSE pc' = "comment" /\ UNCHANGED response
    /\ UNCHANGED <<OPENAI_API_KEY, SLACK_WEBHOOK_URL, method, body, idea, idea_id,
                   openai_outcome, analysis, comment_result, notify_result,
                   notify_calls, calls, textvars>>

\* Line 324: aha_post_private_comment(idea_id, draft_body), inside try.
PostComment(o) ==
    /\ pc = "comment"
    /\ calls' = calls \o CommentCalls(idea_id, o)
    /\ comment_result' = CommentResult(o)
    /\ pc' = IF comment_result' = "raised" THEN "alert" ELSE "blocks"
    /\ UNCHANGED <<OPENAI_API_KEY, SLACK_WEBHOOK_URL, method, body, idea, idea_id,
                   openai_outcome, analysis, notify_result, notify_calls, response,
                   textvars>>

\* Line 325: build_slack_blocks(idea, critique), inside try.
BuildBlocks ==
    /\ pc = "blocks"
    /\ pc' = IF BlocksRaise(analysis) THEN "alert" ELSE "notify"
    /\ UNCHANGED <<OPENAI_API_KEY, SLACK_WEBHOOK_URL, method, body, idea, idea_id,
                   openai_outcome, analysis, comment_result, notify_result,
                   notify_calls, calls, response, textvars>>

\* Lines 326-329: slack_notify(text, blocks), inside try.
NotifyRich(o) ==
    /\ pc = "notify"
    /\ notify_calls' = Append(notify_calls, "needs_review")
    /\ calls' = calls \o SlackPosts(SLACK_WEBHOOK_URL, "needs_review", o)
    /\ notify_result' = SlackNotifyResult(SLACK_WEBHOOK_URL, o)
    /\ pc' = IF notify_result' = "raised" THEN "alert" ELSE "respond"
    /\ UNCHANGED <<OPENAI_API_KEY, SLACK_WEBHOOK_URL, method, body, idea, idea_id,
                   openai_outcome, analysis, comment_result, response, textvars>>

\* Lines 330-331: slack_notify(text) in the except clause.
NotifyAlert(o) ==
    /\ pc = "alert"
    /\ notify_calls' = Append(notify_calls, "failure_alert")
    /\ calls' = calls \o SlackPosts(SLACK_WEBHOOK_URL, "failure_alert", o)
    /\ notify_result' = SlackNotifyResult(SLACK_WEBHOOK_URL, o)
    /\ IF notify_result' = "raised" THEN Finish(Uncaught)
       ELSE pc' = "respond" /\ UNCHANGED response
    /\ UNCHANGED <<OPENAI_API_KEY, SLACK_WEBHOOK_URL, method, body, idea, idea_id,
                   openai_outcome, analysis, comment_result, textvars>>

\* Lines 333-338.
Respond ==
    /\ pc = "respond"
    /\ Finish(Notified(idea_id))
    /\ UNCHANGED <<OPENAI_API_KEY, SLACK_WEBHOOK_URL, method, body, idea, idea_id,
                   openai_outcome, analysis, comment_result, notify_result,
                   notify_calls, calls, textvars>>

Next ==
    \/ \E m \in Methods, b \in Bodies : Receive(m, IF m = "POST" THEN b ELSE NoBody)
    \/ HealthCheck
    \/ FilterEvent
    \/ ResolveId
    \/ \E o \in OpenAIOutcomes : AnalyzeIdeaQuality(o)
    \/ Gate
    \/ DraftBody
    \/ \E o \in CommentOutcomes : PostComment(o)
    \/ BuildBlocks
    \/ \E o \in SlackOutcomes : NotifyRich(o)
    \/ \E o \in SlackOutcomes : NotifyAlert(o)
    \/ Respond
    \/ NextRequest

Spec == Init /\ [][Next]_vars

(***************************************************************************)
(* The text helpers on their own: every string up to MaxLen over Chars,    *)
(* and None, is stripped once and again, and shortened to every limit up   *)
(* to MaxLimit.                                                            *)
(***************************************************************************)
WebIdle ==
    /\ OPENAI_API_KEY = FALSE
    /\ SLACK_WEBHOOK_URL = FALSE
    /\ pc = "off"
    /\ method = "POST"
    /\ body = NoBody
    /\ idea = Payload("absent", NoFields)
    /\ idea_id = ""
    /\ openai_outcome = NoOutcome
    /\ analysis = Unbound
    /\ comment_result = "not_called"
    /\ notify_result = "not_called"
    /\ notify_calls = <<>>
    /\ calls = <<>>
    /\ response = NoResponse

InitText ==
    /\ WebIdle
    /\ tpc = "start"
    /\ text \in {NoneText} \cup {Str(s) : s \in StringsUpTo(MaxLen)}
    /\ limit \in 0..MaxLimit
    /\ stripped = <<>>
    /\ stripped2 = <<>>
    /\ shortened = <<>>

\* stripped = _strip_html(text)
StripHtml ==
    /\ tpc = "start"
    /\ stripped' = _strip_html(text)
    /\ tpc' = "stripped"
    /\ UNCHANGED <<text, limit, stripped2, shortened, webvars>>

\* stripped2 = _strip_html(stripped)
StripHtmlAgain ==
    /\ tpc = "stripped"
    /\ stripped2' = _strip_html(Str(stripped))
    /\ tpc' = "stripped_twice"
    /\ UNCHANGED <<text, limit, stripped, shortened, webvars>>

\* shortened = _shorten(text, limit)
Shorten ==
    /\ tpc = "start"
    /\ shortened' = _shorten(text, limit)
    /\ tpc' = "shortened"
    /\ UNCHANGED <<text, limit, stripped, stripped2, webvars>>

NextText == StripHtml \/ StripHtmlAgain \/ Shorten

SpecText == InitText /\ [][NextText]_vars

(***************************************************************************)
(* Vocabulary of the properties                                            *)
(***************************************************************************)
\* The idea payload as the specification describes it: the body's top-level
\* "idea" field when it is present and non-empty, otherwise the body itself.
PayloadOfBody(b) == IF b.idea.kind \in {"absent", "empty"} THEN b.top ELSE b.idea

HasTruthyId(p) == Truthy(p.id) \/ Truthy(p.reference_num) \/ Truthy(p.reference)

\* The string form of the first truthy identifier, tried as id,
\* reference_num, reference.
FirstTruthyId(p) ==
    IF Truthy(p.id) THEN PyStr(p.id)
    ELSE IF Truthy(p.reference_num) THEN PyStr(p.reference_num)
    ELSE PyStr(p.reference)

CallsTo(api) == {i \in 1..Len(calls) : calls[i].api = api}
SlackMessages(what) == {i \in CallsTo("slack") : calls[i].what = what}
NoOutboundCalls == calls = <<>>
NoPosts == CallsTo("aha_comment") = {} /\ CallsTo("slack") = {}

\* A POST with a JSON-object (or unparseable) body and a dict, empty or
\* missing "idea", that the event filter lets through.
PlainPost ==
    /\ method = "POST"
    /\ body.kind \in {"dict", "none"}
    /\ body.idea.kind # "string"
    /\ body.event \in {None, StrV(""), StrV("create"), StrV("created")}

(***************************************************************************)
(* C1: every POST whose idea payload has no truthy id, reference_num or    *)
(* reference is answered with a 400-class response and makes no outbound   *)
(* call.  Stated for the requests the event filter lets through.  The code *)
(* violates it: str(None) is "None", so line 298 lets the request pass.    *)
(***************************************************************************)
C1_NoIdIs400 ==
    (PlainPost /\ ~HasTruthyId(PayloadOfBody(body)))
        => /\ NoOutboundCalls
           /\ pc = "done" => response.code \in 400..499

(***************************************************************************)
(* C2: once an idea identifier was resolved, the response is 200 whatever  *)
(* the generative call, the comment post and the chat post do.  Stated for *)
(* payloads whose text fields are well typed, so that only the downstream  *)
(* outcomes vary.  The code violates it: a needs_improvement=true analysis *)
(* whose issues_found is a number raises at line 321, outside any try.     *)
(***************************************************************************)
C2_Always200 ==
    (/\ pc = "done"
     /\ PlainPost
     /\ body.fields = "text"
     /\ HasTruthyId(PayloadOfBody(body)))
        => response.code = 200

(***************************************************************************)
(* C3: analyzer gating.  When analyze_idea_quality has returned and gave   *)
(* no positive result (no API key; the call raised; status not 200; the    *)
(* answer or its content did not parse to an object; the needs_improvement *)
(* flag is false, null or absent), the request makes no comment post and   *)
(* no chat post and is answered 200, status "ok", action                   *)
(* "no_action_needed"; a comment or chat post is made only in a request    *)
(* whose parsed analysis had a true needs_improvement (Python truth).      *)
(***************************************************************************)
NoPositiveResult ==
    \/ ~OPENAI_API_KEY
    \/ openai_outcome.kind \in {"transport_error", "non_200", "body_not_json",
                                "wrong_shape", "content_not_json", "content_not_dict"}
    \/ /\ openai_outcome.kind = "dict"
       /\ openai_outcome.needs_improvement \in {"false", "null", "absent"}

C3_AnalyzerGating ==
    /\ (analysis.kind # "unbound" /\ NoPositiveResult)
          => /\ NoPosts
             /\ pc \in {"gate", "done"}
             /\ pc = "done" => response = Resp(200, "ok", idea_id, "no_action_needed")
    /\ ~NoPosts
          => /\ openai_outcome.kind = "dict"
             /\ openai_outcome.needs_improvement \notin {"false", "null", "absent"}

C3_Witness ==
    /\ pc = "done"
    /\ OPENAI_API_KEY
    /\ openai_outcome.kind = "transport_error"
    /\ Len(calls) = 1
    /\ calls[1].api = "openai"
    /\ response = Resp(200, "ok", idea_id, "no_action_needed")

(***************************************************************************)
(* C4: when the comment endpoint rejects the first request-body shape,     *)
(* aha_post_private_comment tries an alternate shape, and it never raises  *)
(* past its own boundary.  The code violates it: one POST only (line 261), *)
(* and a transport error or a non-JSON body propagates (lines 261, 264).   *)
(***************************************************************************)
C4_DualShapeNeverRaises ==
    comment_result # "not_called"
        => /\ comment_result # "raised"
           /\ \A i \in CallsTo("aha_comment") :
                 calls[i].outcome \in {"rejected_4xx", "error_5xx"}
                    => \E j \in CallsTo("aha_comment") :
                          j > i /\ calls[j].what # calls[i].what

(***************************************************************************)
(* C5: identifier resolution.  The idea payload is the "idea" field when   *)
(* present and non-empty, otherwise the body; when it has a truthy         *)
(* identifier, idea_id is the string form of the first truthy one among    *)
(* id, reference_num, reference, and the same id is in the comment         *)
(* endpoint path and in the response's idea_id.                            *)
(***************************************************************************)
C5_IdResolution ==
    LET p == PayloadOfBody(Data(body))
    IN  /\ (idea.kind # "absent") => idea = p
        /\ (idea.kind # "absent" /\ p.kind # "string" /\ HasTruthyId(p))
              => /\ idea_id = FirstTruthyId(p)
                 /\ \A i \in CallsTo("aha_comment") : calls[i].idea_id = FirstTruthyId(p)
                 /\ response.status = "ok" => response.idea_id = FirstTruthyId(p)

C5_Witness ==
    /\ pc = "done"
    /\ body.idea.kind = "dict"
    /\ body.idea.id = IntV(0)
    /\ body.idea.reference_num = StrV("R-1")
    /\ body.top.id = StrV("T-1")
    /\ \E i \in CallsTo("aha_comment") : calls[i].idea_id = "R-1"
    /\ response = Resp(200, "ok", "R-1", "notified")

(***************************************************************************)
(* C6: event filter.  A POST whose body has a truthy event other than      *)
(* "create" or "created" is answered 200 with status "skipped" and makes   *)
(* no outbound call, with or without an idea identifier; a POST with no    *)
(* event, or with "create" or "created", is not skipped.                   *)
(***************************************************************************)
C6_EventFilter ==
    (method = "POST" /\ body.kind = "dict")
        => /\ (Truthy(body.event) /\ body.event \notin {StrV("create"), StrV("created")})
                 => /\ NoOutboundCalls
                    /\ pc \in {"received", "done"}
                    /\ pc = "done" => response = Resp(200, "skipped", "", "")
           /\ body.event \in {None, StrV("create"), StrV("created")}
                 => response.status # "skipped"

C6_Witness ==
    /\ pc = "done"
    /\ method = "POST"
    /\ body.event = StrV("update")
    /\ body.idea.id = StrV("42")
    /\ response = Resp(200, "skipped", "", "")
    /\ calls = <<>>

(***************************************************************************)
(* C7: slack_notify is best-effort.  Without SLACK_WEBHOOK_URL it makes no *)
(* network call; with it, exactly one POST per invocation; and it returns  *)
(* normally in both cases, also when the POST raises.                      *)
(***************************************************************************)
C7_NotifierBestEffort ==
    /\ notify_result # "raised"
    /\ Len(notify_calls) > 0 => notify_result = "returned"
    /\ Cardinality(CallsTo("slack")) = IF SLACK_WEBHOOK_URL THEN Len(notify_calls) ELSE 0

C7_Witness ==
    /\ SLACK_WEBHOOK_URL
    /\ Len(notify_calls) = 1
    /\ notify_result = "returned"
    /\ Cardinality(CallsTo("slack")) = 1
    /\ calls[Len(calls)].api = "slack"
    /\ calls[Len(calls)].outcome = "transport_error"

C7_WitnessNoUrl ==
    /\ ~SLACK_WEBHOOK_URL
    /\ Len(notify_calls) = 1
    /\ notify_result = "returned"
    /\ CallsTo("slack") = {}

(***************************************************************************)
(* C8: markup stripping is idempotent, _strip_html(_strip_html(s)) =       *)
(* _strip_html(s), also on nested, unbalanced and empty angle brackets,    *)
(* and _strip_html of empty input ("" or None) is the empty string.        *)
(***************************************************************************)
C8_StripIdempotent ==
    /\ tpc = "stripped_twice" => stripped2 = stripped
    /\ (tpc \in {"stripped", "stripped_twice"} /\ (text.none \/ text.s = <<>>))
          => stripped = <<>>

C8_Witness ==
    /\ tpc = "stripped_twice"
    /\ text = Str(<<"<", "<", "a", ">", "a", ">">>)
    /\ stripped = <<"a", ">">>
    /\ stripped2 = <<"a", ">">>

(***************************************************************************)
(* C9: truncation law of _shorten for a string s and a limit L >= 0: the   *)
(* output is at most L+1 long; it is s when len(s) <= L; otherwise it is   *)
(* the first L characters of s followed by exactly one ellipsis.           *)
(***************************************************************************)
C9_TruncationLaw ==
    (tpc = "shortened" /\ ~text.none)
        => /\ Len(shortened) <= limit + 1
           /\ Len(text.s) <= limit => shortened = text.s
           /\ Len(text.s) > limit
                 => /\ Len(shortened) = limit + 1
                    /\ \A i \in 1..limit : shortened[i] = text.s[i]
                    /\ shortened[limit + 1] = Ellipsis

C9_Witness ==
    /\ tpc = "shortened"
    /\ limit = 2
    /\ text = Str(<<"a", "<", "a", ">">>)
    /\ shortened = <<"a", "<", Ellipsis>>

(***************************************************************************)
(* C10: outbound calls of one POST: at most one generative-analysis call,  *)
(* then at most one comment post, then at most one chat post, in that      *)
(* order; the "needs review" message is sent only after the comment post   *)
(* returned without raising (a non-2xx status included); if the comment    *)
(* post or the block construction raises, no "needs review" message is     *)
(* sent and slack_notify is called exactly once, with the failure alert.   *)
(***************************************************************************)
Rank(api) == CASE api = "openai" -> 1 [] api = "aha_comment" -> 2 [] api = "slack" -> 3

CallsInOrder ==
    \A i, j \in 1..Len(calls) : i < j => Rank(calls[i].api) < Rank(calls[j].api)

CommentReturned ==
    \E i \in CallsTo("aha_comment") : calls[i].outcome \in {"ok_json", "rejected_4xx", "error_5xx"}

CommentRaised ==
    \E i \in CallsTo("aha_comment") : calls[i].outcome \in {"transport_error", "ok_not_json"}

\* The try block of lines 323-329 was left by an exception and the except
\* clause has run.
TryFailed ==
    /\ pc \in {"respond", "done"}
    /\ CommentRaised \/ (CommentReturned /\ openai_outcome.critique = "number")

RichOnlyAfterComment == SlackMessages("needs_review") # {} => CommentReturned

\* As claimed: on a failure exactly one failure-alert chat message is sent.
C10_Original ==
    /\ CallsInOrder
    /\ RichOnlyAfterComment
    /\ TryFailed
          => /\ Cardinality(SlackMessages("failure_alert")) = 1
             /\ SlackMessages("needs_review") = {}

\* As amended: on a failure slack_notify is called exactly once, with the
\* failure alert, which is one chat message when SLACK_WEBHOOK_URL is set
\* and none when it is not.
C10_CallOrder ==
    /\ CallsInOrder
    /\ RichOnlyAfterComment
    /\ TryFailed
          => /\ notify_calls = <<"failure_alert">>
             /\ Cardinality(SlackMessages("failure_alert")) = IF SLACK_WEBHOOK_URL THEN 1 ELSE 0
             /\ SlackMessages("needs_review") = {}

C10_Witness ==
    /\ pc = "done"
    /\ SLACK_WEBHOOK_URL
    /\ Len(calls) = 3
    /\ calls[1].api = "openai"
    /\ calls[2].api = "aha_comment" /\ calls[2].outcome = "transport_error"
    /\ calls[3].api = "slack" /\ calls[3].what = "failure_alert"
    /\ response.code = 200

====
